---- MODULE Spec2Model ----
(***************************************************************************)
(* Model of gri_1.py, a Streamlit form that computes Scope 1/2/3           *)
(* greenhouse-gas emissions, assembles the `report` dictionary and renders *)
(* it to a Word document.                                                  *)
(*                                                                         *)
(* A Streamlit script is executed from its first to its last line when the *)
(* session starts and again after every committed widget change.  The      *)
(* widgets' values are the only state that survives from one execution to  *)
(* the next; every script-level name (scope1_total, scope3_rows, report,   *)
(* ...) is assigned afresh by each execution.  One action of the model is  *)
(* one user interaction together with the script execution it triggers.    *)
(*                                                                         *)
(* Numbers.  Quantities are whole units.  Emission factors and emissions   *)
(* are fixed-point integers in millionths (2.68 is 2680000), so a product  *)
(* quantity * factor is exact.  Non-ASCII characters of the source's       *)
(* labels are written in ASCII (the rupee sign as Rs, dashes as -).        *)
(* Python dictionaries are iterated in insertion order; a dictionary that  *)
(* the script iterates is a sequence of <<key, value>> pairs.              *)
(***************************************************************************)
EXTENDS Integers, Sequences, FiniteSets, TLC

(***************************************************************************)
(* Bounds of the model.                                                    *)
(***************************************************************************)
MaxEdits == 2
MaxClock == 1

(***************************************************************************)
(* Emission-factor tables and the topic catalogue (gri_1.py:18-41).        *)
(***************************************************************************)
INDIA_SCOPE1_EF ==
  << <<"Diesel (litres)", 2680000>>,
     <<"Petrol (litres)", 2310000>>,
     <<"Furnace Oil (litres)", 3100000>>,
     <<"LPG (kg)", 2950000>>,
     <<"Natural Gas (scm)", 1930000>> >>

INDIA_GRID_EF_T_PER_KWH == 820

DEFRA_SCOPE3_EF ==
  << <<"Purchased Goods & Services (Rs lakh)", 1950000>>,
     <<"Capital Goods (Rs lakh)", 2400000>>,
     <<"Fuel & Energy-Related Activities (GJ)", 125>>,
     <<"Upstream T&D (t-km)", 55>>,
     <<"Waste Generated (t)", 980000>>,
     <<"Business Travel (passenger-km)", 180>>,
     <<"Employee Commuting (passenger-km)", 120>>,
     <<"End-of-Life Treatment (t)", 1150000>> >>

MATERIAL_TOPICS ==
  << "Employee Health, Safety & Wellbeing", "Climate Action", "Product Stewardship",
     "Responsible Supply Chain", "Talent Management & Training",
     "Human Rights & Labour Practices", "Circular Economy",
     "Environmental Protection", "Business Ethics", "Corruption",
     "Air Pollution", "Water", "Community Relations", "Data Privacy" >>

FRAMEWORK_OPTIONS == << "GRI Standards 2021", "BRSR", "SDGs" >>

(***************************************************************************)
(* Dictionaries as sequences of <<key, value>> pairs.                      *)
(***************************************************************************)
Keys(d) == [i \in 1..Len(d) |-> d[i][1]]

KeySet(d) == {d[i][1] : i \in 1..Len(d)}

Get(d, k) == d[CHOOSE i \in 1..Len(d) : d[i][1] = k][2]

Range(s) == {s[i] : i \in 1..Len(s)}

Fuels == KeySet(INDIA_SCOPE1_EF)

Categories == KeySet(DEFRA_SCOPE3_EF)

(***************************************************************************)
(* round(x, 2) of Python on a non-negative number: the nearest multiple of *)
(* 0.01, an exact tie going to the even neighbour.                         *)
(***************************************************************************)
Round2(x) ==
  LET q == x \div 10000
      r == x % 10000
  IN  IF r > 5000 \/ (r = 5000 /\ q % 2 = 1) THEN (q + 1) * 10000 ELSE q * 10000

(* str(v) and f"{v:.2f}": the text of a number, not the number. *)
Str(v) == <<"str", v>>

Fmt2(v) == <<"%.2f", Round2(v) \div 10000>>

(***************************************************************************)
(* st.number_input(label, min_value): the initial value is min_value, and  *)
(* the widget never holds a number below min_value.                        *)
(***************************************************************************)
QtyMin == 0

EfMinZero(ef) == 0

EfMin(ef) == ef

(***************************************************************************)
(* State.  The widgets (what the session keeps between executions):        *)
(***************************************************************************)
VARIABLES
  company,          \* st.text_input("Company Name")
  report_period,    \* st.text_input("Reporting Period")
  frameworks,       \* st.multiselect("Frameworks Used"): in order of selection
  selected_topics,  \* st.multiselect("Choose topics"): in order of selection
  topic_text,       \* per topic, the four text widgets keyed topic+"stk"/"rsk"/"opp"/"kpi"
  gen_ai,           \* st.checkbox("Generate AI narratives (optional)")
  fuel_qty,         \* per fuel, st.number_input(fuel + " used")
  kwh,              \* st.number_input("Electricity purchased (kWh)")
  s3_qty,           \* per category, st.number_input("Quantity", key=cat)
  s3_ef,            \* per category, st.number_input("Emission Factor", key=cat+"_ef")
  kpi_in,           \* the twelve environmental/social/governance number inputs
  \* what the last execution of the script assigned:
  topic_info,
  narratives,
  scope1_total,
  scope2_total,
  total_scope3,
  scope3_rows,
  report,
  docx_bytes,
  \* the environment and the history of the session:
  clock,            \* the wall clock as last read by dt.datetime.now()
  attempt,          \* the last thing the user asked of a widget
  edits             \* number of user interactions so far

widgets == <<company, report_period, frameworks, selected_topics, topic_text, gen_ai,
             fuel_qty, kwh, s3_qty, s3_ef, kpi_in>>

outputs == <<topic_info, narratives, scope1_total, scope2_total, total_scope3,
             scope3_rows, report, docx_bytes>>

vars == <<widgets, outputs, clock, attempt, edits>>

NoReport == [built |-> FALSE]

KPI_LABELS ==
  << "Energy (GJ)", "Renewable Energy (GJ)", "Water Withdrawal (m3)", "Waste Generated (t)",
     "Total Employees", "LTIFR", "Training Hours", "% Female Employees",
     "% Trained in Ethics", "Board Size", "Independent Directors", "Data Breaches" >>

EmptyText == [stk |-> "", rsk |-> "", opp |-> "", kpi |-> <<>>]

(***************************************************************************)
(* [x.strip() for x in text.split(",") if x.strip()]  (gri_1.py:88).       *)
(* A text is a sequence of one-character strings.                          *)
(***************************************************************************)
RECURSIVE Split(_, _)
Split(s, cur) ==
  IF s = <<>> THEN <<cur>>
  ELSE IF Head(s) = "," THEN <<cur>> \o Split(Tail(s), <<>>)
  ELSE Split(Tail(s), Append(cur, Head(s)))

RECURSIVE LStrip(_)
LStrip(s) == IF s # <<>> /\ Head(s) = " " THEN LStrip(Tail(s)) ELSE s

RECURSIVE RStrip(_)
RStrip(s) ==
  IF s # <<>> /\ s[Len(s)] = " " THEN RStrip(SubSeq(s, 1, Len(s) - 1)) ELSE s

Strip(s) == RStrip(LStrip(s))

ParseKpis(text) ==
  LET parts == Split(text, <<>>)
  IN  SelectSeq([i \in 1..Len(parts) |-> Strip(parts[i])], LAMBDA x : x # <<>>)

(***************************************************************************)
(* The topic loop and the optional narratives (gri_1.py:82-93).            *)
(***************************************************************************)
TopicInfo(topics, text) ==
  [i \in 1..Len(topics) |->
     <<topics[i], [stakeholders  |-> text[topics[i]].stk,
                   risks         |-> text[topics[i]].rsk,
                   opportunities |-> text[topics[i]].opp,
                   kpis          |-> ParseKpis(text[topics[i]].kpi)]>>]

ai_narrative(topic, info) == "(AI narrative disabled: OpenAI not configured)"

Narratives(checked, info) ==
  IF checked
    THEN [i \in 1..Len(info) |-> <<info[i][1], ai_narrative(info[i][1], info[i][2])>>]
    ELSE <<>>

(***************************************************************************)
(* Scope 1 (gri_1.py:96-99): scope1_total = 0.0, then += qty * ef per fuel *)
(* of the table, in the table's order.                                     *)
(***************************************************************************)
scope1_stale == IF report = NoReport THEN 0 ELSE scope1_total

scope1_start == 0

Scope1StepAssign(acc, qty, ef) == qty * ef

Scope1Step(acc, qty, ef) == acc + qty * ef

RECURSIVE Scope1Loop(_, _, _)
Scope1Loop(i, qty, acc) ==
  IF i > Len(INDIA_SCOPE1_EF) THEN acc
  ELSE Scope1Loop(i + 1, qty,
                  Scope1Step(acc, qty[INDIA_SCOPE1_EF[i][1]], INDIA_SCOPE1_EF[i][2]))

(***************************************************************************)
(* Scope 2 (gri_1.py:104).                                                 *)
(***************************************************************************)
Scope2Rounded(k) == Round2(k * INDIA_GRID_EF_T_PER_KWH)

Scope2(k) == k * INDIA_GRID_EF_T_PER_KWH

(***************************************************************************)
(* Scope 3 (gri_1.py:108-115): one row per category of the table, in the   *)
(* table's order; the row's factor is the value of the category's          *)
(* "Emission Factor" widget.                                               *)
(***************************************************************************)
Scope3RowDefaultEf(cat, ef, qty, ef_input) ==
  [Category |-> cat, Qty |-> qty, EF |-> ef_input, Emissions |-> qty * ef]

Scope3Row(cat, ef, qty, ef_input) ==
  [Category |-> cat, Qty |-> qty, EF |-> ef_input, Emissions |-> qty * ef_input]

PrependRow(rows, row) == <<row>> \o rows

AppendRow(rows, row) == Append(rows, row)

RECURSIVE Scope3Loop(_, _, _, _)
Scope3Loop(i, qty, efs, acc) ==
  IF i > Len(DEFRA_SCOPE3_EF) THEN acc
  ELSE LET cat == DEFRA_SCOPE3_EF[i][1]
           ef  == DEFRA_SCOPE3_EF[i][2]
           row == Scope3Row(cat, ef, qty[cat], efs[cat])
       IN  Scope3Loop(i + 1, qty, efs,
                      [rows  |-> AppendRow(acc.rows, row),
                       total |-> acc.total + row.Emissions])

(***************************************************************************)
(* build_docx (gri_1.py:46-71).  The document is the sequence of its       *)
(* elements in the order the calls add them; the returned bytes are the    *)
(* saved document.                                                         *)
(***************************************************************************)
Heading(text, level) == [type |-> "heading", text |-> text, level |-> level]

Paragraph(text) == [type |-> "paragraph", text |-> text]

RECURSIVE Join(_, _)
Join(sep, list) ==
  IF list = <<>> THEN <<>>
  ELSE IF Len(list) = 1 THEN <<list[1]>>
  ELSE <<list[1], sep>> \o Join(sep, Tail(list))

RECURSIVE NarrativeSections(_)
NarrativeSections(d) ==
  IF d = <<>> THEN <<>>
  ELSE <<Heading(d[1][1], 2), Paragraph(d[1][2])>> \o NarrativeSections(Tail(d))

TableRow(row) == <<row.Category, Str(row.Qty), Str(row.EF), Fmt2(row.Emissions)>>

SectionsFromTopics(data) == data.topics

SectionsFrom(data) == data.narratives

build_docx(data) ==
  << Heading("GRI ESG Report - COPMANY NAME", 0),
     Paragraph(<<"Reporting period: ", data.period>>),
     Paragraph(<<"Frameworks: ">> \o Join(", ", data.frameworks)),
     Heading("Material Topic Narratives", 1) >>
  \o NarrativeSections(SectionsFrom(data))
  \o << Heading("Environmental KPIs", 1) >>
  \o [i \in 1..Len(data.environmental) |->
        Paragraph(<<data.environmental[i][1], ": ", Str(data.environmental[i][2])>>)]
  \o << Heading("Scope 3 Breakdown", 2),
        [type |-> "table",
         rows |-> << <<"Category", "Qty", "EF", "Emissions">> >>
                  \o [i \in 1..Len(data.scope3_details) |->
                        TableRow(data.scope3_details[i])]] >>

(***************************************************************************)
(* One execution of the script (gri_1.py:76-177) on the widgets' new       *)
(* values.  dt.datetime.now() is read once; time never runs backwards.     *)
(***************************************************************************)
RoundFloor(x) == (x \div 10000) * 10000

RoundTotal(x) == Round2(x)

Assemble(now) ==
  [company   |-> company',
   period    |-> report_period',
   frameworks |-> frameworks',
   topics    |-> topic_info',
   narratives |-> narratives',
   environmental |->
     << <<"Scope 1", RoundTotal(scope1_total')>>,
        <<"Scope 2", RoundTotal(scope2_total')>>,
        <<"Scope 3", RoundTotal(total_scope3')>>,
        <<"Energy", kpi_in'["Energy (GJ)"]>>,
        <<"Renewable", kpi_in'["Renewable Energy (GJ)"]>>,
        <<"Water", kpi_in'["Water Withdrawal (m3)"]>>,
        <<"Waste", kpi_in'["Waste Generated (t)"]>> >>,
   scope3_details |-> scope3_rows',
   social |->
     << <<"Employees", kpi_in'["Total Employees"]>>,
        <<"LTIFR", kpi_in'["LTIFR"]>>,
        <<"Training Hours", kpi_in'["Training Hours"]>>,
        <<"% Female", kpi_in'["% Female Employees"]>> >>,
   governance |->
     << <<"% Ethics Trained", kpi_in'["% Trained in Ethics"]>>,
        <<"Data Breaches", kpi_in'["Data Breaches"]>>,
        <<"Board Size", kpi_in'["Board Size"]>>,
        <<"Independent Directors", kpi_in'["Independent Directors"]>> >>,
   created |-> Str(now)]

RunScript ==
  /\ topic_info' = TopicInfo(selected_topics', topic_text')
  /\ narratives' = Narratives(gen_ai', topic_info')
  /\ scope1_total' = Scope1Loop(1, fuel_qty', scope1_start)
  /\ scope2_total' = Scope2(kwh')
  /\ LET s3 == Scope3Loop(1, s3_qty', s3_ef', [rows |-> <<>>, total |-> 0])
     IN  /\ scope3_rows' = s3.rows
         /\ total_scope3' = s3.total
  /\ \E now \in clock..MaxClock : clock' = now
  /\ report' = Assemble(clock')
  /\ docx_bytes' = build_docx(report')

(***************************************************************************)
(* What the user may type or pick.  Every number widget starts at its      *)
(* minimum; the sets name the other values a session of the model enters.  *)
(***************************************************************************)
FuelValues == {100}

KwhValues == {0, 5, 10, 100000}

QtyValues == {10}

EfValues == {500000, 1500000}

KpiValues == {7}

InvalidValues == {-5}

CompanyValues == {"Acme"}

PeriodValues == {"FY 2026"}

TextValues == {"investors"}

KpiTextValues == {<<" ", "a", ",", " ", ",", "b", " ">>}

TextFields == {"stk", "rsk", "opp", "kpi"}

(* The topics whose widgets the user touches in a session of the model. *)
TouchedTopics == {MATERIAL_TOPICS[2]}

(* The frameworks the user picks or drops in a session of the model. *)
TouchedFrameworks == {"BRSR", "SDGs"}

(* The KPI inputs the user touches in a session of the model. *)
TouchedKpis == {"Data Breaches"}

(***************************************************************************)
(* The state before the first execution: every widget at its default, no   *)
(* script-level name assigned yet.                                         *)
(***************************************************************************)
Init ==
  /\ company = "COMPANY"
  /\ report_period = "01 April 2025 - 31 March 2026"
  /\ frameworks = <<"GRI Standards 2021", "SDGs">>
  /\ selected_topics = MATERIAL_TOPICS
  /\ topic_text = [t \in Range(MATERIAL_TOPICS) |-> EmptyText]
  /\ gen_ai = FALSE
  /\ fuel_qty = [f \in Fuels |-> QtyMin]
  /\ kwh = QtyMin
  /\ s3_qty = [c \in Categories |-> QtyMin]
  /\ s3_ef = [c \in Categories |-> EfMin(Get(DEFRA_SCOPE3_EF, c))]
  /\ kpi_in = [l \in Range(KPI_LABELS) |-> QtyMin]
  /\ topic_info = <<>>
  /\ narratives = <<>>
  /\ scope1_total = 0
  /\ scope2_total = 0
  /\ total_scope3 = 0
  /\ scope3_rows = <<>>
  /\ report = NoReport
  /\ docx_bytes = <<>>
  /\ clock = 0
  /\ attempt = [kind |-> "none", key |-> "", value |-> 0]
  /\ edits = 0

(***************************************************************************)
(* The session starts: the script runs on the defaults.  Later the user    *)
(* may ask for a rerun without touching a widget.                          *)
(***************************************************************************)
StartSession ==
  /\ report = NoReport
  /\ UNCHANGED <<widgets, attempt, edits>>
  /\ RunScript

Rerun ==
  /\ report # NoReport
  /\ attempt' = [kind |-> "rerun", key |-> "", value |-> 0]
  /\ UNCHANGED <<widgets, edits>>
  /\ RunScript

(* A user interaction with a widget: only once the page is rendered. *)
Interact(kind, key, value) ==
  /\ report # NoReport
  /\ edits < MaxEdits
  /\ edits' = edits + 1
  /\ attempt' = [kind |-> kind, key |-> key, value |-> value]

(* The script runs again when a widget's value changed, and only then. *)
RerunIfChanged ==
  IF widgets' # widgets THEN RunScript ELSE UNCHANGED <<outputs, clock>>

(***************************************************************************)
(* st.number_input with minimum min, holding old, asked to hold v: a       *)
(* number of the allowed range is taken; one below the minimum (or no      *)
(* number at all) is not: the widget keeps its value or falls back to the  *)
(* minimum, depending on how it was entered.                               *)
(***************************************************************************)
NumberInput(min, old, v) == IF v >= min THEN {v} ELSE {old, min}

SetCompany(v) ==
  /\ Interact("company", "Company Name", 0)
  /\ company' = v
  /\ UNCHANGED <<report_period, frameworks, selected_topics, topic_text, gen_ai,
                 fuel_qty, kwh, s3_qty, s3_ef, kpi_in>>
  /\ RerunIfChanged

SetPeriod(v) ==
  /\ Interact("period", "Reporting Period", 0)
  /\ report_period' = v
  /\ UNCHANGED <<company, frameworks, selected_topics, topic_text, gen_ai,
                 fuel_qty, kwh, s3_qty, s3_ef, kpi_in>>
  /\ RerunIfChanged

(* A multiselect appends a picked option and removes an unpicked one. *)
ToggleFramework(f) ==
  /\ Interact("frameworks", f, 0)
  /\ frameworks' = IF f \in Range(frameworks)
                     THEN SelectSeq(frameworks, LAMBDA x : x # f)
                     ELSE Append(frameworks, f)
  /\ UNCHANGED <<company, report_period, selected_topics, topic_text, gen_ai,
                 fuel_qty, kwh, s3_qty, s3_ef, kpi_in>>
  /\ RerunIfChanged

(* A topic that is no longer selected loses its four text widgets, which   *)
(* the loop of gri_1.py:83-89 no longer creates.                           *)
ToggleTopic(t) ==
  /\ Interact("topics", t, 0)
  /\ IF t \in Range(selected_topics)
       THEN /\ selected_topics' = SelectSeq(selected_topics, LAMBDA x : x # t)
            /\ topic_text' = [topic_text EXCEPT ![t] = EmptyText]
       ELSE /\ selected_topics' = Append(selected_topics, t)
            /\ UNCHANGED topic_text
  /\ UNCHANGED <<company, report_period, frameworks, gen_ai,
                 fuel_qty, kwh, s3_qty, s3_ef, kpi_in>>
  /\ RerunIfChanged

SetTopicText(t, field, v) ==
  /\ t \in Range(selected_topics)
  /\ Interact("text", t, 0)
  /\ topic_text' = [topic_text EXCEPT ![t][field] = v]
  /\ UNCHANGED <<company, report_period, frameworks, selected_topics, gen_ai,
                 fuel_qty, kwh, s3_qty, s3_ef, kpi_in>>
  /\ RerunIfChanged

ToggleGenAi ==
  /\ Interact("gen_ai", "Generate AI narratives (optional)", 0)
  /\ gen_ai' = ~gen_ai
  /\ UNCHANGED <<company, report_period, frameworks, selected_topics, topic_text,
                 fuel_qty, kwh, s3_qty, s3_ef, kpi_in>>
  /\ RerunIfChanged

SetFuel(f, v) ==
  /\ Interact("fuel", f, v)
  /\ \E x \in NumberInput(QtyMin, fuel_qty[f], v) :
       fuel_qty' = [fuel_qty EXCEPT ![f] = x]
  /\ UNCHANGED <<company, report_period, frameworks, selected_topics, topic_text, gen_ai,
                 kwh, s3_qty, s3_ef, kpi_in>>
  /\ RerunIfChanged

SetKwh(v) ==
  /\ Interact("kwh", "Electricity purchased (kWh)", v)
  /\ kwh' \in NumberInput(QtyMin, kwh, v)
  /\ UNCHANGED <<company, report_period, frameworks, selected_topics, topic_text, gen_ai,
                 fuel_qty, s3_qty, s3_ef, kpi_in>>
  /\ RerunIfChanged

SetS3Qty(c, v) ==
  /\ Interact("qty", c, v)
  /\ \E x \in NumberInput(QtyMin, s3_qty[c], v) :
       s3_qty' = [s3_qty EXCEPT ![c] = x]
  /\ UNCHANGED <<company, report_period, frameworks, selected_topics, topic_text, gen_ai,
                 fuel_qty, kwh, s3_ef, kpi_in>>
  /\ RerunIfChanged

SetS3Ef(c, v) ==
  /\ Interact("ef", c, v)
  /\ \E x \in NumberInput(EfMin(Get(DEFRA_SCOPE3_EF, c)), s3_ef[c], v) :
       s3_ef' = [s3_ef EXCEPT ![c] = x]
  /\ UNCHANGED <<company, report_period, frameworks, selected_topics, topic_text, gen_ai,
                 fuel_qty, kwh, s3_qty, kpi_in>>
  /\ RerunIfChanged

SetKpi(l, v) ==
  /\ Interact("kpi", l, v)
  /\ \E x \in NumberInput(QtyMin, kpi_in[l], v) :
       kpi_in' = [kpi_in EXCEPT ![l] = x]
  /\ UNCHANGED <<company, report_period, frameworks, selected_topics, topic_text, gen_ai,
                 fuel_qty, kwh, s3_qty, s3_ef>>
  /\ RerunIfChanged

Next ==
  \/ StartSession
  \/ Rerun
  \/ \E v \in CompanyValues : SetCompany(v)
  \/ \E v \in PeriodValues : SetPeriod(v)
  \/ \E f \in TouchedFrameworks : ToggleFramework(f)
  \/ \E t \in TouchedTopics : ToggleTopic(t)
  \/ \E t \in TouchedTopics, field \in TextFields :
       \E v \in (IF field = "kpi" THEN KpiTextValues ELSE TextValues) :
         SetTopicText(t, field, v)
  \/ ToggleGenAi
  \/ \E f \in Fuels, v \in FuelValues \cup InvalidValues : SetFuel(f, v)
  \/ \E v \in KwhValues \cup InvalidValues : SetKwh(v)
  \/ \E c \in Categories, v \in QtyValues \cup InvalidValues : SetS3Qty(c, v)
  \/ \E c \in Categories, v \in EfValues \cup InvalidValues : SetS3Ef(c, v)
  \/ \E l \in TouchedKpis, v \in KpiValues \cup InvalidValues : SetKpi(l, v)

Spec == Init /\ [][Next]_vars

(***************************************************************************)
(* Vocabulary of the properties.                                           *)
(***************************************************************************)
Built == report # NoReport

Default(c) == Get(DEFRA_SCOPE3_EF, c)

RowOf(c) == scope3_rows[CHOOSE i \in 1..Len(scope3_rows) : scope3_rows[i].Category = c]

RECURSIVE SumEmissions(_)
SumEmissions(rows) ==
  IF rows = <<>> THEN 0 ELSE rows[1].Emissions + SumEmissions(Tail(rows))

(* r is x rounded to 2 decimal places: a multiple of 0.01 no further than  *)
(* 0.005 from x.                                                           *)
IsRounded2(x, r) ==
  /\ r % 10000 = 0
  /\ 2 * (x - r) <= 10000
  /\ 2 * (r - x) <= 10000

(* The table of the document and its topic sections, as <<heading text,    *)
(* paragraph text>> pairs: the elements between the headings "Material     *)
(* Topic Narratives" and "Environmental KPIs".                             *)
DocTable == docx_bytes[Len(docx_bytes)].rows

IsHeading(e, text, level) ==
  /\ e.type = "heading"
  /\ e.level = level
  /\ e.text = text

KpiHeadingAt ==
  CHOOSE i \in 1..Len(docx_bytes) : IsHeading(docx_bytes[i], "Environmental KPIs", 1)

DocSections ==
  [j \in 1..((KpiHeadingAt - 5) \div 2) |->
     <<docx_bytes[3 + 2 * j].text, docx_bytes[4 + 2 * j].text>>]

DocSectionsWellFormed ==
  /\ IsHeading(docx_bytes[4], "Material Topic Narratives", 1)
  /\ (KpiHeadingAt - 5) % 2 = 0
  /\ \A j \in 1..((KpiHeadingAt - 5) \div 2) :
       /\ docx_bytes[3 + 2 * j].type = "heading"
       /\ docx_bytes[3 + 2 * j].level = 2
       /\ docx_bytes[4 + 2 * j].type = "paragraph"

WithoutCreated(r) == [r EXCEPT !.created = Str(0)]

(***************************************************************************)
(* C1.  The Scope 1 total is the sum over the five fuels of quantity times *)
(* the fuel's table factor, an untouched fuel counting as 0; Diesel = 100  *)
(* alone gives 268.00.                                                     *)
(***************************************************************************)
C1_Scope1Total ==
  /\ scope1_total = fuel_qty["Diesel (litres)"] * 2680000
                  + fuel_qty["Petrol (litres)"] * 2310000
                  + fuel_qty["Furnace Oil (litres)"] * 3100000
                  + fuel_qty["LPG (kg)"] * 2950000
                  + fuel_qty["Natural Gas (scm)"] * 1930000
  /\ (fuel_qty = [f \in Fuels |-> IF f = "Diesel (litres)" THEN 100 ELSE 0])
       => scope1_total = 268000000

C1_Witness ==
  /\ Built
  /\ fuel_qty = [f \in Fuels |-> IF f = "Diesel (litres)" THEN 100 ELSE 0]
  /\ scope1_total = 268000000

(***************************************************************************)
(* C2.  With no override supplied a Scope 3 row's factor is the category's *)
(* default; an override the user supplies, any non-negative value above or *)
(* below the default, is exactly the factor of the row.                    *)
(***************************************************************************)
C2_OverrideUsed ==
  /\ (Built /\ edits = 0) =>
       \A c \in Categories : RowOf(c).EF = Default(c)
  /\ (Built /\ attempt.kind = "ef" /\ attempt.value >= 0) =>
       /\ RowOf(attempt.key).EF = attempt.value
       /\ RowOf(attempt.key).Emissions = s3_qty[attempt.key] * attempt.value

(***************************************************************************)
(* C3.  Once a negative quantity or factor has been entered, no report     *)
(* record has been built.                                                  *)
(***************************************************************************)
C3_InvalidRefused ==
  (attempt.kind \in {"fuel", "kwh", "qty", "ef", "kpi"} /\ attempt.value < 0)
    => ~Built

(***************************************************************************)
(* C4.  scope3_details has exactly one row per category, in the order of   *)
(* the table, and the table of the document has its rows in that order,    *)
(* whatever the order in which the inputs were entered.                    *)
(***************************************************************************)
C4_RowOrder ==
  Built =>
    /\ Len(report.scope3_details) = Len(DEFRA_SCOPE3_EF)
    /\ \A i \in 1..Len(DEFRA_SCOPE3_EF) :
         report.scope3_details[i].Category = DEFRA_SCOPE3_EF[i][1]
    /\ Len(DocTable) = Len(DEFRA_SCOPE3_EF) + 1
    /\ \A i \in 1..Len(DEFRA_SCOPE3_EF) :
         DocTable[i + 1][1] = DEFRA_SCOPE3_EF[i][1]

(* A later category was filled in first, an earlier one after it. *)
C4_Witness ==
  /\ Built
  /\ attempt.kind = "qty"
  /\ attempt.key = DEFRA_SCOPE3_EF[1][1]
  /\ s3_qty[DEFRA_SCOPE3_EF[1][1]] > 0
  /\ s3_qty[DEFRA_SCOPE3_EF[5][1]] > 0

(***************************************************************************)
(* C5.  Every row of scope3_details has Emissions = Qty * EF.              *)
(***************************************************************************)
C5_RowProduct ==
  Built =>
    \A i \in 1..Len(report.scope3_details) :
      LET row == report.scope3_details[i]
      IN  row.Emissions = row.Qty * row.EF

C5_Witness ==
  /\ Built
  /\ \E i \in 1..Len(report.scope3_details) :
       LET row == report.scope3_details[i]
       IN  /\ row.Qty > 0
           /\ row.EF # Default(row.Category)
           /\ row.Emissions = row.Qty * row.EF

(***************************************************************************)
(* C6.  environmental["Scope 1"], ["Scope 2"], ["Scope 3"] are the         *)
(* calculator's totals rounded to 2 decimal places, and the Scope 3 total  *)
(* is the sum of the Emissions of the rows of scope3_details.              *)
(***************************************************************************)
C6_RoundedTotals ==
  Built =>
    /\ IsRounded2(scope1_total, Get(report.environmental, "Scope 1"))
    /\ IsRounded2(scope2_total, Get(report.environmental, "Scope 2"))
    /\ IsRounded2(total_scope3, Get(report.environmental, "Scope 3"))
    /\ total_scope3 = SumEmissions(report.scope3_details)
    /\ IsRounded2(SumEmissions(report.scope3_details),
                  Get(report.environmental, "Scope 3"))

(* Totals that rounding changes, one of them rounded up. *)
C6_Witness ==
  /\ Built
  /\ total_scope3 % 10000 # 0
  /\ Get(report.environmental, "Scope 3") # total_scope3
  /\ Get(report.environmental, "Scope 2") > scope2_total

(***************************************************************************)
(* C7.  The Scope 2 total of 0 kWh is 0, doubling the electricity doubles  *)
(* the total, and 100,000 kWh give 82.00.                                  *)
(***************************************************************************)
C7_Scope2Linear ==
  /\ [](kwh = 0 => scope2_total = 0)
  /\ [](kwh = 100000 => scope2_total = 82000000)
  /\ [][kwh' = 2 * kwh => scope2_total' = 2 * scope2_total]_vars

C7_Witness ==
  /\ Built
  /\ attempt.kind = "kwh"
  /\ kwh = 10
  /\ scope2_total = 8200
  /\ edits = 2

(***************************************************************************)
(* C8 as stated.  The topic sections of the document are the selected      *)
(* topics, whether or not the narratives were asked for.                   *)
(***************************************************************************)
C8_SectionsPerSelectedTopic ==
  Built =>
    /\ Len(DocSections) = Len(selected_topics)
    /\ {DocSections[j][1] : j \in 1..Len(DocSections)} = Range(selected_topics)

(***************************************************************************)
(* C8 as amended.  The document has one section per entry of narratives,   *)
(* carrying its text: the sections are the selected topics when the        *)
(* narratives were asked for, and there is none when they were not.        *)
(***************************************************************************)
C8_SectionsPerNarrative ==
  Built =>
    /\ DocSectionsWellFormed
    /\ Len(DocSections) = Len(report.narratives)
    /\ Len(DocSections) = (IF gen_ai THEN Len(selected_topics) ELSE 0)
    /\ DocSections = report.narratives
    /\ gen_ai => /\ {DocSections[j][1] : j \in 1..Len(DocSections)} = Range(selected_topics)
                 /\ Range(selected_topics) = KeySet(report.topics)

C8_Witness ==
  /\ Built
  /\ gen_ai
  /\ Len(selected_topics) = Len(MATERIAL_TOPICS) - 1
  /\ Len(DocSections) = Len(selected_topics)

(***************************************************************************)
(* C9.  An execution on unchanged inputs rebuilds the same report record:  *)
(* identical in every field when the clock reads the same, and identical   *)
(* but for created otherwise.  Nothing an execution assigned reaches the   *)
(* next one.                                                               *)
(***************************************************************************)
C9_Deterministic ==
  [][(Built /\ widgets' = widgets) =>
       /\ WithoutCreated(report') = WithoutCreated(report)
       /\ (clock' = clock => report' = report)]_vars

C9_Witness ==
  /\ Built
  /\ attempt.kind = "rerun"
  /\ scope1_total > 0
  /\ total_scope3 > 0

(***************************************************************************)
(* C10.  Every row of scope3_details has a factor no smaller than the      *)
(* default factor of its category: a smaller override is never taken.      *)
(***************************************************************************)
C10_FactorAtLeastDefault ==
  /\ \A c \in Categories : s3_ef[c] >= Default(c)
  /\ Built =>
       \A i \in 1..Len(report.scope3_details) :
         report.scope3_details[i].EF >= Default(report.scope3_details[i].Category)

(* A non-negative override below the default was asked for. *)
C10_Witness ==
  /\ Built
  /\ attempt.kind = "ef"
  /\ attempt.value >= 0
  /\ attempt.value < Default(attempt.key)
  /\ RowOf(attempt.key).EF >= Default(attempt.key)

====
